---- MODULE Spec2Model ----
(***************************************************************************)
(* State-machine model of salesforce-auth-expo: the SalesforceAuthClient   *)
(* (signIn / signOut / getUserInfo / isAuthenticated), the two Token Store *)
(* implementations it is built on (SecureStorage, BrowserStorage), and the *)
(* environment it talks to (browser auth session, OAuth endpoints).        *)
(*                                                                         *)
(* Every `await` of the source is a step boundary: an action is the        *)
(* completion of one awaited operation together with the synchronous code  *)
(* that follows it up to the next await.                                   *)
(***************************************************************************)
EXTENDS Integers, Sequences, FiniteSets, TLC

\* ------------------------------------------------------------------ bounds
\* Number of call slots (async invocations of client methods that exist at
\* the same time, finished ones included until their slot is reused).
MaxCalls == 2
\* Number of random strings generateRandomString() may hand out in a run.
MaxRandom == 7
\* Number of distinct token responses the token endpoint may answer with.
MaxResp == 2
\* Number of setItem calls made on a SecureStorage directly (each draws one
\* random string for its encryption key).
MaxStoreSets == 2
\* The same over media whose deletions may fail.
MaxFaultySets == 1
\* Two clients over the same media: setItem is called only while the media
\* hold fewer items than this.
MaxSharedItems == 2
\* Overlapping sign-ins: a signIn() is started only while fewer random
\* strings than this have been drawn.
MaxOverlapStart == 2
\* Overlapping hook callbacks: signIn of the hook is called only while
\* fewer random strings than this have been drawn.
MaxHookStart == 1
\* Overlapping hook callbacks: signOut of the hook is called only while
\* fewer call slots than this hold a signOut() call.
MaxHookSignOuts == 1
\* ... and signIn of the hook only while fewer call slots than this hold a
\* signIn() call.
MaxHookSignIns == 1

Calls == 1..MaxCalls

\* Client instances the provider constructs over its life.
MaxClients == 2

\* ------------------------------------------------------------ JS values
\* null / undefined of the source.
NULL == "<null>"

\* JS truthiness of a `string | null` value: null and "" are falsy.
Falsy(x) == x = NULL \/ x = ""

\* a ?? b
Coalesce(a, b) == IF a = NULL THEN b ELSE a

\* URLSearchParams: an ordered list of <<name, value>> pairs.
\* searchParams.get(name): the first value of that name, or null.
RECURSIVE SearchParamsGet(_, _)
SearchParamsGet(q, name) ==
  IF q = <<>> THEN NULL
  ELSE IF Head(q)[1] = name THEN Head(q)[2]
  ELSE SearchParamsGet(Tail(q), name)

\* ...(cond && { name: value }) spread into a URLSearchParams initialiser.
SpreadIf(cond, name) == IF Falsy(cond) THEN <<>> ELSE << <<name, cond>> >>

\* --------------------------------------------------- utils (not in src/)
\* generateRandomString(): the n-th string handed out; distinct calls give
\* distinct strings.
RandomString(n) == "r" \o ToString(n)

\* generateCodeChallenge(verifier): deterministic, injective digest.
generateCodeChallenge(v) == "S256(" \o v \o ")"

\* ------------------------------------------------------------ key/value maps
\* A storage medium: a partial function from storage key to stored item.
EmptyMap == [k \in {} |-> NULL]
MapGet(m, k) == IF k \in DOMAIN m THEN m[k] ELSE NULL
MapSet(m, k, v) == [x \in (DOMAIN m) \cup {k} |-> IF x = k THEN v ELSE m[x]]
\* Faulty variant: removing an item leaves it in place.
MapRemove_Noop(m, k) == m
\* Faulty variant: removing an item clears the whole medium.
MapRemove_Clear(m, k) == EmptyMap
MapRemove(m, k) == [x \in (DOMAIN m) \ {k} |-> m[x]]

\* ------------------------------------------------------------------ state
VARIABLES
  platform,           \* Platform.OS: "web" or "native" (selects the store)
  config,             \* SalesforceConfig & GeneralAuthConfig of the client
  asyncStorage,       \* AsyncStorage: storage key -> ciphertext      (native)
  secureStore,        \* SecureStore: storage key -> encryption key   (native)
  localStorage,       \* window.localStorage: key -> value            (web)
  sessionStorage,     \* window.sessionStorage: key -> value          (web)
  authSessionResult,  \* SalesforceAuthClient.authSessionResult (instance field)
  rnd,                \* number of random strings handed out so far
  op,                 \* op[p]: the client method call slot p is running
  pc,                 \* pc[p]: the await call p is suspended at
  local,              \* local[p]: the local variables of call p
  sop,                \* sop[p]: the storage method call p is inside of
  provider,           \* SalesforceAuthProvider: its state and memoized client
  outcome,            \* outcome[p]: how call p settled (returned / threw)
  sent,               \* sent[p]: the fetch() requests call p has issued
  opened,             \* opened[p]: the browser auth sessions call p opened
  pre,                \* pre[p]: the storage media as they were when p started
  prev,               \* prev[p]: the call that had settled last when p started
  last                \* the call that settled last: its method, its outcome and
                      \* whether an access token was stored when it started

storageVars == <<asyncStorage, secureStore, localStorage, sessionStorage>>
vars == <<platform, config, asyncStorage, secureStore, localStorage,
          sessionStorage, authSessionResult, rnd, op, pc, local, sop,
          outcome, sent, opened, pre, prev, last, provider>>

\* The storage media as one value (for the before/after snapshots).
Media == [asyncStorage |-> asyncStorage, secureStore |-> secureStore,
          localStorage |-> localStorage, sessionStorage |-> sessionStorage]

\* ------------------------------------------------------------ configuration
\* The configurations the client is constructed with.  An optional boolean
\* is <<>> when left out and <<b>> when given.
Configs ==
  { [clientId |-> "C1", clientSecret |-> NULL, redirectUri |-> "app://cb",
     sandbox |-> FALSE, perferEphemeralSession |-> <<>>],
    [clientId |-> "C1", clientSecret |-> "SECRET", redirectUri |-> NULL,
     sandbox |-> TRUE, perferEphemeralSession |-> <<FALSE>>] }

\* The client identifiers of the configs the provider is rendered with.
ProviderClientIds == {"C1", "C2"}

\* constructor: endpoint hosts and the ephemeral-session default.
domain == IF config.sandbox = TRUE THEN "test.salesforce.com"
          ELSE "login.salesforce.com"
authEndpoint == "https://" \o domain \o "/services/oauth2/authorize"
tokenEndpoint == "https://" \o domain \o "/services/oauth2/token"
revocationEndpoint == "https://" \o domain \o "/services/oauth2/revoke"
userInfoEndpoint == "https://" \o domain \o "/services/oauth2/userinfo"
preferEphemeralSession ==
  IF config.perferEphemeralSession = <<>> THEN TRUE
  ELSE config.perferEphemeralSession[1]

\* makeRedirectUri({ scheme: "myapp" }) of expo-auth-session.
makeRedirectUri == "myapp://"

\* ------------------------------------------------------------ PersistKey
AccessToken == "accessToken"
RefreshToken == "refreshToken"
SignInSession == "signInSession"
\* The key set the stores are used with (idToken is never used here).
PersistKeys == {AccessToken, RefreshToken, SignInSession}

\* ------------------------------------------------------------ SecureStorage
\* new SecureStorage(`salesforce.${config.clientId}`)
SecureStorageId == "salesforce." \o config.clientId
\* Faulty variant: the item name is left out of the storage key.
getStorageKey_Shared(key) == SecureStorageId
getStorageKey(key) == SecureStorageId \o "." \o key

\* CryptoES.AES.encrypt(value, encryptionKey): a ciphertext only the same
\* key opens.
AESEncrypt(value, encryptionKey) == [cipher |-> value, under |-> encryptionKey]

\* CryptoES.AES.decrypt(value, encryptionKey).toString(Utf8): the plaintext
\* under the right key; under a wrong key either the empty string or a
\* "Malformed UTF-8 data" error, whichever the garbage bytes give.
MalformedUtf8 == "<Malformed UTF-8 data>"
AESDecrypt(value, encryptionKey) ==
  IF value.under = encryptionKey THEN {value.cipher} ELSE {"", MalformedUtf8}

\* ------------------------------------------------------------ BrowserStorage
keyPrefix == "salesforce_auth"
\* new BrowserStorage(config.clientId)
appId == config.clientId
getKey(item) ==
  IF item = NULL THEN keyPrefix \o ":" \o appId
  ELSE keyPrefix \o ":" \o appId \o ":" \o item

\* Faulty variant: every item is kept in the session storage.
BrowserScope_AllSession(key) == "session"

\* Which web storage scope a key lives in.
BrowserScope(key) == IF key = SignInSession THEN "session" ELSE "local"

BrowserStorage_getItem(key) ==
  IF BrowserScope(key) = "session"
  THEN Coalesce(MapGet(sessionStorage, getKey(key)),
                MapGet(sessionStorage, getKey(NULL)))
  ELSE MapGet(localStorage, getKey(key))

\* ------------------------------------------------------------ storage calls
NoSop == [fn |-> "none", key |-> NULL, value |-> NULL, at |-> "none",
          tmp |-> NULL, pending |-> {}, ret |-> NULL]

\* The storage method has returned to the client code awaiting it.
Returned(p) == sop[p].at = "return"

\* First await of each SecureStorage method.
SecureFirstAwait(fn) ==
  CASE fn = "getItem" -> "AsyncStorage.getItem"
    [] fn = "setItem" -> "generateRandomString"
    [] fn = "removeItem" -> "Promise.all"

\* this.storage.<fn>(key, value) called by p.  On the web the BrowserStorage
\* method body is synchronous: its effect happens at the call.  On native the
\* SecureStorage method suspends at its first await without any effect yet.
CallStorage(p, fn, key, value) ==
  IF platform = "web"
  THEN /\ UNCHANGED <<asyncStorage, secureStore>>
       /\ localStorage' =
            IF BrowserScope(key) = "local" /\ fn = "setItem"
              THEN MapSet(localStorage, getKey(key), value)
            ELSE IF BrowserScope(key) = "local" /\ fn = "removeItem"
              THEN MapRemove(localStorage, getKey(key))
            ELSE localStorage
       /\ sessionStorage' =
            IF BrowserScope(key) = "session" /\ fn = "setItem"
              THEN MapSet(sessionStorage, getKey(key), value)
            ELSE IF BrowserScope(key) = "session" /\ fn = "removeItem"
              THEN MapRemove(sessionStorage, getKey(key))
            ELSE sessionStorage
       /\ sop' = [sop EXCEPT ![p] =
            [NoSop EXCEPT !.fn = fn, !.key = key, !.value = value,
               !.at = "return",
               !.ret = IF fn = "getItem" THEN BrowserStorage_getItem(key)
                       ELSE NULL]]
  ELSE /\ UNCHANGED storageVars
       /\ sop' = [sop EXCEPT ![p] =
            [NoSop EXCEPT !.fn = fn, !.key = key, !.value = value,
               !.at = SecureFirstAwait(fn),
               !.pending = IF fn = "removeItem"
                             THEN {"AsyncStorage.removeItem",
                                   "SecureStore.deleteItemAsync"}
                           ELSE {}]]

\* No storage method is called in this step.
NoStorageCall(p) ==
  /\ UNCHANGED storageVars
  /\ sop' = [sop EXCEPT ![p] = NoSop]

\* The value the media `m` hold for `key` of this client, null if none: for
\* the BrowserStorage the item of the key's scope, for the SecureStorage the
\* plaintext of the stored ciphertext if the key that opens it is stored too.
StoredValue(m, key) ==
  IF platform = "web"
  THEN IF BrowserScope(key) = "session"
         THEN MapGet(m.sessionStorage, getKey(key))
       ELSE MapGet(m.localStorage, getKey(key))
  ELSE LET storageKey == getStorageKey(key) IN
         IF /\ storageKey \in DOMAIN m.asyncStorage
            /\ storageKey \in DOMAIN m.secureStore
            /\ m.asyncStorage[storageKey].under = m.secureStore[storageKey]
         THEN m.asyncStorage[storageKey].cipher
         ELSE NULL

\* Whether the media `m` hold an access token of this client.
HoldsToken(m) == StoredValue(m, AccessToken) # NULL

\* ------------------------------------------------------------ call outcomes
NoOutcome == [status |-> "none", name |-> NULL, code |-> NULL, value |-> NULL]
Pending == [status |-> "pending", name |-> NULL, code |-> NULL, value |-> NULL]
ReturnedWith(v) ==
  [status |-> "returned", name |-> NULL, code |-> NULL, value |-> v]
Thrown(name, code) ==
  [status |-> "threw", name |-> name, code |-> code, value |-> NULL]

\* errors: the closed set of codes and the error class carrying one.
SalesforceAuthErrorCodes ==
  {"auth_session_failed", "invalid_state", "not_authenticated",
   "token_exchange_failed", "userinfo_request_failed"}
SalesforceAuthError(code) == Thrown("SalesforceAuthError", code)

\* What fetch() rejects with when the network call itself fails.
FetchRejection == Thrown("TypeError", NULL)

NoResponse == [settled |-> "none", ok |-> FALSE]
NoLocal == [codeVerifier |-> NULL, codeChallenge |-> NULL, state |-> NULL,
            redirectUri |-> NULL, code |-> NULL, token |-> NULL,
            response |-> NoResponse,
            access_token |-> NULL, refresh_token |-> NULL,
            key |-> NULL, value |-> NULL, returnedState |-> NULL,
            client |-> NULL,
            browserResult |-> [type |-> "none", url |-> <<>>],
            caller |-> NULL, instance |-> 0, flag |-> FALSE,
            resumed |-> FALSE, settled |-> NoOutcome]

EmptyMedia == [asyncStorage |-> EmptyMap, secureStore |-> EmptyMap,
               localStorage |-> EmptyMap, sessionStorage |-> EmptyMap]

\* What is known of a key's entry from the calls completed so far, when it
\* is not a value: a failed or partial mutation leaves it unknown.
Unknown == "<unknown>"

\* The methods of the Storage interface, called on the store directly.
StorageMethods == {"storage.getItem", "storage.setItem", "storage.removeItem"}

NoCall == [op |-> "none", outcome |-> NoOutcome, hadToken |-> FALSE,
           written |-> [k \in PersistKeys |-> NULL]]

\* The value each key was last set to by the calls settled so far, with call
\* p settling with `out`: null if the key was never set or was removed
\* since.  signIn and signOut mutate the two token entries in ways only the
\* media tell.
Written(p, out) ==
  IF op[p] = "storage.setItem"
    THEN [last.written EXCEPT ![local[p].key] =
            IF out.status = "returned" THEN local[p].value ELSE Unknown]
  ELSE IF op[p] = "storage.removeItem"
    THEN [last.written EXCEPT ![local[p].key] =
            IF out.status = "returned" THEN NULL ELSE Unknown]
  ELSE IF op[p] \in {"signIn", "signOut"}
    THEN [last.written EXCEPT ![AccessToken] = Unknown,
                              ![RefreshToken] = Unknown]
  ELSE last.written

\* Call p is suspended at an await.
InFlight(p) == pc[p] \notin {"idle", "done"}

\* Call p has settled.
Settled(p) == pc[p] = "done"

\* A method is invoked with its parameters as its first locals; the call
\* takes the first slot that holds no call in flight.
InvokeWith(p, method, firstAwait, locals) ==
  /\ ~InFlight(p)
  /\ \A q \in Calls : q < p => InFlight(q)
  /\ op' = [op EXCEPT ![p] = method]
  /\ pc' = [pc EXCEPT ![p] = firstAwait]
  /\ local' = [local EXCEPT ![p] = locals]
  /\ outcome' = [outcome EXCEPT ![p] = Pending]
  /\ sent' = [sent EXCEPT ![p] = <<>>]
  /\ opened' = [opened EXCEPT ![p] = <<>>]
  /\ pre' = [pre EXCEPT ![p] = Media]
  /\ prev' = [prev EXCEPT ![p] = last]
  /\ UNCHANGED <<platform, config, authSessionResult, rnd, last>>

Invoke(p, method, firstAwait) == InvokeWith(p, method, firstAwait, NoLocal)

\* The promise of call p settles with `out`.
Settle(p, out) ==
  /\ pc' = [pc EXCEPT ![p] = "done"]
  /\ outcome' = [outcome EXCEPT ![p] = out]
  /\ last' = [op |-> op[p], outcome |-> out, hadToken |-> HoldsToken(pre[p]),
              written |-> Written(p, out)]

\* Call p moves on to its next await.
Goto(p, next) ==
  /\ pc' = [pc EXCEPT ![p] = next]
  /\ UNCHANGED <<outcome, last>>

\* SecureStorage.getItem, after `await AsyncStorage.getItem(storageKey)`:
\* no ciphertext -> null; else decrypt() awaits SecureStore.getItemAsync.
AsyncStorageGetItem(p) ==
  /\ sop[p].at = "AsyncStorage.getItem"
  /\ LET storageKey == getStorageKey(sop[p].key) IN
       sop' = [sop EXCEPT ![p] =
         IF storageKey \notin DOMAIN asyncStorage
           THEN [@ EXCEPT !.at = "return", !.ret = NULL]
         ELSE [@ EXCEPT !.at = "SecureStore.getItemAsync",
                        !.tmp = asyncStorage[storageKey]]]
  /\ UNCHANGED <<provider, platform, config, storageVars, authSessionResult, rnd, op,
                 pc, local, outcome, sent, opened, pre, prev, last>>

\* What a call rejects with when decryption throws: no client method
\* catches it.
DecryptError == Thrown("Error", NULL)

\* Faulty variant: a missing encryption key is not checked for.
NoEncryptionKey_Unchecked(encryptionKey) == FALSE

\* decrypt: if (!encryptionKey)
NoEncryptionKey(encryptionKey) == Falsy(encryptionKey)

\* SecureStorage.decrypt, after `await SecureStore.getItemAsync(key)`:
\* no encryption key -> null; else the decryption of the ciphertext read
\* before (a decryption error rejects getItem and the client method).
SecureStoreGetItem(p) ==
  /\ sop[p].at = "SecureStore.getItemAsync"
  /\ LET encryptionKey == MapGet(secureStore, getStorageKey(sop[p].key)) IN
       IF NoEncryptionKey(encryptionKey)
       THEN /\ sop' = [sop EXCEPT ![p] =
                 [@ EXCEPT !.at = "return", !.ret = NULL, !.tmp = NULL]]
            /\ UNCHANGED <<pc, outcome, last>>
       ELSE \E plain \in AESDecrypt(sop[p].tmp, encryptionKey) :
              IF plain = MalformedUtf8
              THEN /\ sop' = [sop EXCEPT ![p] = NoSop]
                   /\ Settle(p, DecryptError)
              ELSE /\ sop' = [sop EXCEPT ![p] =
                        [@ EXCEPT !.at = "return", !.ret = plain, !.tmp = NULL]]
                   /\ UNCHANGED <<pc, outcome, last>>
  /\ UNCHANGED <<provider, platform, config, storageVars, authSessionResult, rnd, op,
                 local, sent, opened, pre, prev>>

\* SecureStorage.encrypt, after `await generateRandomString()`: encrypt the
\* value under the fresh key, then await SecureStore.setItemAsync(key, ...).
EncryptGenerateKey(p) ==
  /\ sop[p].at = "generateRandomString"
  /\ rnd < MaxRandom
  /\ rnd' = rnd + 1
  /\ sop' = [sop EXCEPT ![p] =
       [@ EXCEPT !.at = "SecureStore.setItemAsync",
                 !.tmp = AESEncrypt(sop[p].value, RandomString(rnd + 1))]]
  /\ UNCHANGED <<provider, platform, config, storageVars, authSessionResult, op,
                 pc, local, outcome, sent, opened, pre, prev, last>>

\* SecureStorage.encrypt, `await SecureStore.setItemAsync(key, encryptionKey)`
\* takes effect; setItem then awaits AsyncStorage.setItem(storageKey, ...).
SecureStoreSetItem(p) ==
  /\ sop[p].at = "SecureStore.setItemAsync"
  /\ secureStore' =
       MapSet(secureStore, getStorageKey(sop[p].key), sop[p].tmp.under)
  /\ sop' = [sop EXCEPT ![p] = [@ EXCEPT !.at = "AsyncStorage.setItem"]]
  /\ UNCHANGED <<provider, platform, config, asyncStorage, localStorage, sessionStorage,
                 authSessionResult, rnd, op, pc, local, outcome, sent, opened,
                 pre, prev, last>>

\* SecureStorage.setItem, `await AsyncStorage.setItem(storageKey, encrypted)`
\* takes effect; setItem returns.
AsyncStorageSetItem(p) ==
  /\ sop[p].at = "AsyncStorage.setItem"
  /\ asyncStorage' = MapSet(asyncStorage, getStorageKey(sop[p].key), sop[p].tmp)
  /\ sop' = [sop EXCEPT ![p] = [@ EXCEPT !.at = "return", !.tmp = NULL]]
  /\ UNCHANGED <<provider, platform, config, secureStore, localStorage, sessionStorage,
                 authSessionResult, rnd, op, pc, local, outcome, sent, opened,
                 pre, prev, last>>

\* Promise.all settles once both deletions have.
AfterRemoval(s, done) ==
  [s EXCEPT !.pending = @ \ {done},
            !.at = IF s.pending \ {done} = {} THEN "return" ELSE "Promise.all"]

\* SecureStorage.removeItem: AsyncStorage.removeItem(storageKey) takes effect.
AsyncStorageRemoveItem(p) ==
  /\ sop[p].at = "Promise.all"
  /\ "AsyncStorage.removeItem" \in sop[p].pending
  /\ asyncStorage' = MapRemove(asyncStorage, getStorageKey(sop[p].key))
  /\ sop' = [sop EXCEPT ![p] = AfterRemoval(@, "AsyncStorage.removeItem")]
  /\ UNCHANGED <<provider, platform, config, secureStore, localStorage, sessionStorage,
                 authSessionResult, rnd, op, pc, local, outcome, sent, opened,
                 pre, prev, last>>

\* SecureStorage.removeItem: SecureStore.deleteItemAsync(storageKey) takes
\* effect.
SecureStoreDeleteItem(p) ==
  /\ sop[p].at = "Promise.all"
  /\ "SecureStore.deleteItemAsync" \in sop[p].pending
  /\ secureStore' = MapRemove(secureStore, getStorageKey(sop[p].key))
  /\ sop' = [sop EXCEPT ![p] = AfterRemoval(@, "SecureStore.deleteItemAsync")]
  /\ UNCHANGED <<provider, platform, config, asyncStorage, localStorage, sessionStorage,
                 authSessionResult, rnd, op, pc, local, outcome, sent, opened,
                 pre, prev, last>>

\* --------------------------------------------------------- storage failures
\* What a call rejects with when an AsyncStorage / SecureStore operation it
\* awaits rejects: no client method catches it.
StorageError == Thrown("StorageError", NULL)

\* The awaits of SecureStorage that are operations on a storage medium.
StorageAwaits ==
  {"AsyncStorage.getItem", "SecureStore.getItemAsync",
   "SecureStore.setItemAsync", "AsyncStorage.setItem", "Promise.all"}

\* The storage operation call p awaits rejects without effect, and the
\* rejection propagates through the storage method and the client method.
\* In removeItem's Promise.all one deletion rejects; the other one, if still
\* pending, takes effect or fails as well.
StorageRejects(p) ==
  /\ sop[p].at \in StorageAwaits
  /\ LET storageKey == getStorageKey(sop[p].key) IN
       \E failed \in (IF sop[p].at = "Promise.all" THEN sop[p].pending
                      ELSE {sop[p].at}) :
         \E landed \in SUBSET (sop[p].pending \ {failed}) :
           /\ asyncStorage' = IF "AsyncStorage.removeItem" \in landed
                                THEN MapRemove(asyncStorage, storageKey)
                              ELSE asyncStorage
           /\ secureStore' = IF "SecureStore.deleteItemAsync" \in landed
                               THEN MapRemove(secureStore, storageKey)
                             ELSE secureStore
  /\ sop' = [sop EXCEPT ![p] = NoSop]
  /\ Settle(p, StorageError)
  /\ UNCHANGED <<provider, platform, config, localStorage, sessionStorage,
                 authSessionResult, rnd, op, local, sent, opened, pre, prev>>

\* ------------------------------------------------------------ environment
\* What fetch() settles with: a response (ok or not), or a rejection.
FetchResults ==
  { [settled |-> "resolved", ok |-> TRUE],
    [settled |-> "resolved", ok |-> FALSE],
    [settled |-> "rejected", ok |-> FALSE] }

\* fetch() rejected: the network call itself failed.
Rejected(response) == response.settled = "rejected"

\* JSON bodies of successful token responses: response n carries access
\* token ATn and, optionally, refresh token RTn.
TokenResponses ==
  UNION { { [access_token |-> "AT" \o ToString(n),
               refresh_token |-> "RT" \o ToString(n)],
              [access_token |-> "AT" \o ToString(n), refresh_token |-> NULL] } :
            n \in 1..MaxResp }

\* Query strings the redirect captured by the browser step may carry.
RedirectCodes == { <<"code", c>> : c \in {"ABC123", ""} }
RedirectStates(p) ==
  { <<"state", s>> :
      s \in {local[p].state, local[p].state \o "x", "WRONG", ""}
            \cup {local[q].state : q \in {r \in Calls : local[r].state # NULL}} }
RedirectQueries(p) ==
  {<<>>} \cup { <<c>> : c \in RedirectCodes }
         \cup { <<s>> : s \in RedirectStates(p) }
         \cup { <<c, s>> : c \in RedirectCodes, s \in RedirectStates(p) }

\* WebBrowserAuthSessionResult values openAuthSessionAsync resolves with.
BrowserResults(p) ==
  { [type |-> t, url |-> <<>>] : t \in {"cancel", "dismiss", "locked"} }
  \cup { [type |-> "success", url |-> q] : q \in RedirectQueries(p) }

\* ------------------------------------------------------------ client: signIn
\* redirectUri = this.config.redirectUri ?? makeRedirectUri({scheme: "myapp"})
RedirectUri == Coalesce(config.redirectUri, makeRedirectUri)

\* The authorization request handed to WebBrowser.openAuthSessionAsync.
AuthorizationRequest(state, codeChallenge, redirectUri) ==
  [url |-> [endpoint |-> authEndpoint,
            params |-> << <<"client_id", config.clientId>>,
                          <<"response_type", "code">>,
                          <<"redirect_uri", redirectUri>>,
                          <<"state", state>>,
                          <<"code_challenge", codeChallenge>>,
                          <<"code_challenge_method", "S256">> >>],
   redirectUrl |-> redirectUri,
   options |-> [preferEphemeralSession |-> preferEphemeralSession]]

\* Faulty variant: only a user cancel is treated as a failed session.
AuthSessionFailed_OnlyCancel(result) == result.type = "cancel"

\* if (this.authSessionResult.type !== "success")
AuthSessionFailed(result) == result.type # "success"

\* Faulty variant: best-effort matching, a redirect without a state passes.
InvalidState_Lenient(code, returnedState, state) ==
  Falsy(code) \/ (returnedState # NULL /\ returnedState # state)

\* if (!code || returnedState !== state)
InvalidState(code, returnedState, state) ==
  Falsy(code) \/ returnedState # state

\* Faulty variant: the token request names the default redirect URI, not the
\* one the authorization request was made with.
TokenRequest_DefaultRedirect(code, codeVerifier, redirectUri) ==
  [url |-> tokenEndpoint, method |-> "POST", authorization |-> NULL,
   body |-> << <<"client_id", config.clientId>>,
               <<"grant_type", "authorization_code">>,
               <<"code", code>>,
               <<"code_verifier", codeVerifier>>,
               <<"redirect_uri", makeRedirectUri>> >>
            \o SpreadIf(config.clientSecret, "client_secret")]

\* exchangeCodeForToken: the POST sent to the token endpoint.
TokenRequest(code, codeVerifier, redirectUri) ==
  [url |-> tokenEndpoint, method |-> "POST", authorization |-> NULL,
   body |-> << <<"client_id", config.clientId>>,
               <<"grant_type", "authorization_code">>,
               <<"code", code>>,
               <<"code_verifier", codeVerifier>>,
               <<"redirect_uri", redirectUri>> >>
            \o SpreadIf(config.clientSecret, "client_secret")]

\* Faulty variant: the condition inverted.
HasRefreshToken_Inverted(refresh_token) == Falsy(refresh_token)

\* Faulty variant: the refresh token entry is written whatever the response.
HasRefreshToken_Always(refresh_token) == TRUE

\* exchangeCodeForToken: if (data.refresh_token)
HasRefreshToken(refresh_token) == ~Falsy(refresh_token)

\* signIn() is invoked; it suspends at `await generateRandomString()`.
SignIn(p) ==
  /\ Invoke(p, "signIn", "generateRandomString:codeVerifier")
  /\ NoStorageCall(p)
  /\ UNCHANGED provider

\* const codeVerifier = await generateRandomString();
SignInCodeVerifier(p) ==
  /\ pc[p] = "generateRandomString:codeVerifier"
  /\ rnd < MaxRandom
  /\ rnd' = rnd + 1
  /\ local' = [local EXCEPT ![p].codeVerifier = RandomString(rnd + 1)]
  /\ Goto(p, "generateCodeChallenge")
  /\ NoStorageCall(p)
  /\ UNCHANGED <<provider, platform, config, authSessionResult, op, sent, opened, pre,
                 prev>>

\* const codeChallenge = await generateCodeChallenge(codeVerifier);
SignInCodeChallenge(p) ==
  /\ pc[p] = "generateCodeChallenge"
  /\ local' = [local EXCEPT ![p].codeChallenge =
                 generateCodeChallenge(local[p].codeVerifier)]
  /\ Goto(p, "generateRandomString:state")
  /\ NoStorageCall(p)
  /\ UNCHANGED <<provider, platform, config, authSessionResult, rnd, op, sent, opened,
                 pre, prev>>

\* Faulty variant of SignInState: the state is also kept in the store, as
\* the sign-in session.
SignInState_PersistsSession(p) ==
  /\ pc[p] = "generateRandomString:state"
  /\ rnd < MaxRandom
  /\ rnd' = rnd + 1
  /\ LET state == RandomString(rnd + 1) IN
       /\ local' = [local EXCEPT ![p].state = state,
                                 ![p].redirectUri = RedirectUri]
       /\ opened' = [opened EXCEPT ![p] = Append(@,
            AuthorizationRequest(state, local[p].codeChallenge, RedirectUri))]
       /\ sessionStorage' = MapSet(sessionStorage, getKey(SignInSession), state)
  /\ Goto(p, "openAuthSessionAsync")
  /\ sop' = [sop EXCEPT ![p] = NoSop]
  /\ UNCHANGED <<provider, platform, config, asyncStorage, secureStore, localStorage,
                 authSessionResult, op, sent, pre, prev>>

\* const state = await generateRandomString(16); then redirectUri, params and
\* the call of WebBrowser.openAuthSessionAsync, which suspends.
SignInState(p) ==
  /\ pc[p] = "generateRandomString:state"
  /\ rnd < MaxRandom
  /\ rnd' = rnd + 1
  /\ LET state == RandomString(rnd + 1) IN
       /\ local' = [local EXCEPT ![p].state = state,
                                 ![p].redirectUri = RedirectUri]
       /\ opened' = [opened EXCEPT ![p] = Append(@,
            AuthorizationRequest(state, local[p].codeChallenge, RedirectUri))]
  /\ Goto(p, "openAuthSessionAsync")
  /\ NoStorageCall(p)
  /\ UNCHANGED <<provider, platform, config, authSessionResult, op, sent, pre, prev>>

\* What signIn() does once the browser step resolved with `result`: the type
\* check, the parse of the redirect URL, the code/state check, and
\* exchangeCodeForToken up to its fetch(). `field` is what the reads of
\* this.authSessionResult give; local[p].browserResult keeps what the await
\* of this call resolved with.
SignInAfterBrowser(p, result, field) ==
  IF AuthSessionFailed(field)
  THEN /\ Settle(p, SalesforceAuthError("auth_session_failed"))
       /\ local' = [local EXCEPT ![p].browserResult = result]
       /\ UNCHANGED sent
  ELSE LET code == SearchParamsGet(field.url, "code")
           returnedState == SearchParamsGet(field.url, "state")
       IN IF InvalidState(code, returnedState, local[p].state)
          THEN /\ Settle(p, SalesforceAuthError("invalid_state"))
               /\ local' = [local EXCEPT
                              ![p].returnedState = returnedState,
                              ![p].browserResult = result]
               /\ UNCHANGED sent
          ELSE /\ local' = [local EXCEPT
                              ![p].code = code,
                              ![p].returnedState = returnedState,
                              ![p].browserResult = result]
               /\ sent' = [sent EXCEPT ![p] = Append(@,
                    TokenRequest(code, local[p].codeVerifier,
                                 local[p].redirectUri))]
               /\ Goto(p, "fetch:token")

\* Faulty variant: the instance field is assigned only while it is unset
\* (??=), so a later call checks the result an earlier call stored there.
SignInAuthSession_KeepsFirst(p) ==
  /\ pc[p] = "openAuthSessionAsync"
  /\ \E result \in BrowserResults(p) :
       /\ authSessionResult' = IF authSessionResult.type = "none"
                                THEN result ELSE authSessionResult
       /\ SignInAfterBrowser(p, result, authSessionResult')
  /\ NoStorageCall(p)
  /\ UNCHANGED <<provider, platform, config, rnd, op, opened, pre, prev>>

\* this.authSessionResult = await WebBrowser.openAuthSessionAsync(...): the
\* browser step resolves and its result is assigned to the instance field;
\* the continuation then reads the field, in the same turn of the event
\* loop, for the type check and for the redirect URL.
SignInAuthSession(p) ==
  /\ pc[p] = "openAuthSessionAsync"
  /\ \E result \in BrowserResults(p) :
       /\ authSessionResult' = result
       /\ SignInAfterBrowser(p, result, authSessionResult')
  /\ NoStorageCall(p)
  /\ UNCHANGED <<provider, platform, config, rnd, op, opened, pre, prev>>

\* Faulty variant of ExchangeFetch: the body of the response is persisted as
\* the access token before response.ok is looked at.
ExchangeFetch_StoresBeforeCheck(p) ==
  /\ pc[p] = "fetch:token"
  /\ \E response \in FetchResults :
       /\ local' = [local EXCEPT ![p].response = response]
       /\ IF Rejected(response)
          THEN /\ Settle(p, FetchRejection)
               /\ UNCHANGED storageVars
          ELSE IF ~response.ok
            THEN /\ Settle(p, SalesforceAuthError("token_exchange_failed"))
                 /\ localStorage' =
                      IF platform = "web"
                      THEN MapSet(localStorage, getKey(AccessToken), "undefined")
                      ELSE localStorage
                 /\ asyncStorage' =
                      IF platform = "web" THEN asyncStorage
                      ELSE MapSet(asyncStorage, getStorageKey(AccessToken),
                                  AESEncrypt("undefined", "k"))
                 /\ secureStore' =
                      IF platform = "web" THEN secureStore
                      ELSE MapSet(secureStore, getStorageKey(AccessToken), "k")
                 /\ UNCHANGED sessionStorage
          ELSE /\ Goto(p, "response.json:token")
               /\ UNCHANGED storageVars
  /\ sop' = [sop EXCEPT ![p] = NoSop]
  /\ UNCHANGED <<provider, platform, config, authSessionResult, rnd, op, sent,
                 opened, pre, prev>>

\* Faulty variant of ExchangeFetch: a non-success response is answered by
\* sending the token request again.
ExchangeFetch_Retries(p) ==
  /\ pc[p] = "fetch:token"
  /\ \E response \in FetchResults :
       /\ local' = [local EXCEPT ![p].response = response]
       /\ IF Rejected(response)
          THEN Settle(p, FetchRejection) /\ UNCHANGED sent
          ELSE IF ~response.ok
            THEN /\ sent' = [sent EXCEPT ![p] = Append(@, sent[p][1])]
                 /\ Goto(p, "fetch:token")
          ELSE Goto(p, "response.json:token") /\ UNCHANGED sent
  /\ NoStorageCall(p)
  /\ UNCHANGED <<provider, platform, config, authSessionResult, rnd, op,
                 opened, pre, prev>>

\* exchangeCodeForToken: `await fetch(this.tokenEndpoint, ...)` settles.
ExchangeFetch(p) ==
  /\ pc[p] = "fetch:token"
  /\ \E response \in FetchResults :
       /\ local' = [local EXCEPT ![p].response = response]
       /\ IF Rejected(response) THEN Settle(p, FetchRejection)
          ELSE IF ~response.ok
            THEN Settle(p, SalesforceAuthError("token_exchange_failed"))
          ELSE Goto(p, "response.json:token")
  /\ NoStorageCall(p)
  /\ UNCHANGED <<provider, platform, config, authSessionResult, rnd, op, sent,
                 opened, pre, prev>>

\* const data = await response.json(); then storage.setItem("accessToken",
\* data.access_token) is called.
ExchangeJson(p) ==
  /\ pc[p] = "response.json:token"
  /\ \E data \in TokenResponses :
       /\ local' = [local EXCEPT ![p].access_token = data.access_token,
                                 ![p].refresh_token = data.refresh_token]
       /\ CallStorage(p, "setItem", AccessToken, data.access_token)
  /\ Goto(p, "setItem:accessToken")
  /\ UNCHANGED <<provider, platform, config, authSessionResult, rnd, op, sent, opened,
                 pre, prev>>

\* The access token is stored; if (data.refresh_token) store that too, else
\* exchangeCodeForToken and signIn return.
ExchangeStoredAccess(p) ==
  /\ pc[p] = "setItem:accessToken"
  /\ Returned(p)
  /\ IF HasRefreshToken(local[p].refresh_token)
     THEN /\ CallStorage(p, "setItem", RefreshToken, local[p].refresh_token)
          /\ Goto(p, "setItem:refreshToken")
     ELSE /\ NoStorageCall(p)
          /\ Settle(p, ReturnedWith(NULL))
  /\ UNCHANGED <<provider, platform, config, authSessionResult, rnd, op, local, sent,
                 opened, pre, prev>>

\* The refresh token is stored; exchangeCodeForToken and signIn return.
ExchangeStoredRefresh(p) ==
  /\ pc[p] = "setItem:refreshToken"
  /\ Returned(p)
  /\ NoStorageCall(p)
  /\ Settle(p, ReturnedWith(NULL))
  /\ UNCHANGED <<provider, platform, config, authSessionResult, rnd, op, local, sent,
                 opened, pre, prev>>

\* ------------------------------------------------------------ client: signOut
\* The POST sent to the revocation endpoint.
RevocationRequest(token) ==
  [url |-> revocationEndpoint, method |-> "POST", authorization |-> NULL,
   body |-> << <<"token", token>>, <<"client_id", config.clientId>> >>
            \o SpreadIf(config.clientSecret, "client_secret")]

\* Faulty variant: the revocation is attempted whatever getItem returned.
HasToken_Always(token) == TRUE

\* Faulty variant: the test negated.
HasToken_Negated(token) == Falsy(token)

\* signOut: if (token)
HasToken(token) == ~Falsy(token)

\* Faulty variant: a non-success revocation response aborts signOut too.
RevocationAborts_OnStatus(response) == Rejected(response) \/ ~response.ok

\* Faulty variant: a failed revocation is swallowed, the cleanup always runs.
RevocationAborts_Never(response) == FALSE

\* signOut: which fetch() outcomes end the call before the local cleanup.
\* Only a rejection does: the response status is never looked at.
RevocationAborts(response) == Rejected(response)

\* signOut() is invoked: storage.getItem("accessToken") is called.
SignOut(p) ==
  /\ Invoke(p, "signOut", "getItem:accessToken")
  /\ CallStorage(p, "getItem", AccessToken, NULL)
  /\ UNCHANGED provider

\* const token = await this.storage.getItem(...); if (token) the revocation
\* request is sent, else signOut returns.
SignOutToken(p) ==
  /\ op[p] = "signOut"
  /\ pc[p] = "getItem:accessToken"
  /\ Returned(p)
  /\ LET token == sop[p].ret IN
       /\ local' = [local EXCEPT ![p].token = token]
       /\ IF HasToken(token)
          THEN /\ sent' = [sent EXCEPT ![p] = Append(@, RevocationRequest(token))]
               /\ Goto(p, "fetch:revoke")
          ELSE /\ UNCHANGED sent
               /\ Settle(p, ReturnedWith(NULL))
  /\ NoStorageCall(p)
  /\ UNCHANGED <<provider, platform, config, authSessionResult, rnd, op, opened, pre,
                 prev>>

\* `await fetch(this.revocationEndpoint, ...)` settles; on a response (of any
\* status) storage.removeItem("accessToken") is called.
SignOutFetch(p) ==
  /\ pc[p] = "fetch:revoke"
  /\ \E response \in FetchResults :
       /\ local' = [local EXCEPT ![p].response = response]
       /\ IF RevocationAborts(response)
          THEN /\ Settle(p, FetchRejection)
               /\ NoStorageCall(p)
          ELSE /\ Goto(p, "removeItem:accessToken")
               /\ CallStorage(p, "removeItem", AccessToken, NULL)
  /\ UNCHANGED <<provider, platform, config, authSessionResult, rnd, op, sent,
                 opened, pre, prev>>

\* The access token entry is removed; storage.removeItem("refreshToken").
SignOutRemovedAccess(p) ==
  /\ pc[p] = "removeItem:accessToken"
  /\ Returned(p)
  /\ Goto(p, "removeItem:refreshToken")
  /\ CallStorage(p, "removeItem", RefreshToken, NULL)
  /\ UNCHANGED <<provider, platform, config, authSessionResult, rnd, op, local, sent,
                 opened, pre, prev>>

\* The refresh token entry is removed; signOut returns.
SignOutRemovedRefresh(p) ==
  /\ pc[p] = "removeItem:refreshToken"
  /\ Returned(p)
  /\ Settle(p, ReturnedWith(NULL))
  /\ NoStorageCall(p)
  /\ UNCHANGED <<provider, platform, config, authSessionResult, rnd, op, local, sent,
                 opened, pre, prev>>

\* ------------------------------------------------------- client: getUserInfo
\* Faulty variant: the request goes out without the bearer token.
UserInfoRequest_Unauthenticated(token) ==
  [url |-> userInfoEndpoint, method |-> "GET",
   authorization |-> NULL, body |-> <<>>]

\* The GET sent to the userinfo endpoint.
UserInfoRequest(token) ==
  [url |-> userInfoEndpoint, method |-> "GET",
   authorization |-> "Bearer " \o token, body |-> <<>>]

\* The UserInfo JSON of a successful userinfo response.
UserInfoJson == "userinfo"

\* getUserInfo() is invoked: storage.getItem("accessToken") is called.
GetUserInfo(p) ==
  /\ Invoke(p, "getUserInfo", "getItem:accessToken")
  /\ CallStorage(p, "getItem", AccessToken, NULL)
  /\ UNCHANGED provider

\* const token = await this.storage.getItem(...); if (!token) throw
\* not_authenticated, else the userinfo request is sent.
GetUserInfoToken(p) ==
  /\ op[p] = "getUserInfo"
  /\ pc[p] = "getItem:accessToken"
  /\ Returned(p)
  /\ LET token == sop[p].ret IN
       /\ local' = [local EXCEPT ![p].token = token]
       /\ IF ~HasToken(token)
          THEN /\ UNCHANGED sent
               /\ Settle(p, SalesforceAuthError("not_authenticated"))
          ELSE /\ sent' = [sent EXCEPT ![p] = Append(@, UserInfoRequest(token))]
               /\ Goto(p, "fetch:userinfo")
  /\ NoStorageCall(p)
  /\ UNCHANGED <<provider, platform, config, authSessionResult, rnd, op, opened, pre,
                 prev>>

\* `await fetch(this.userInfoEndpoint, ...)` settles; if (!response.ok) throw
\* userinfo_request_failed, else return response.json().
GetUserInfoFetch(p) ==
  /\ pc[p] = "fetch:userinfo"
  /\ \E response \in FetchResults :
       /\ local' = [local EXCEPT ![p].response = response]
       /\ IF Rejected(response) THEN Settle(p, FetchRejection)
          ELSE IF ~response.ok
            THEN Settle(p, SalesforceAuthError("userinfo_request_failed"))
          ELSE Goto(p, "response.json:userinfo")
  /\ NoStorageCall(p)
  /\ UNCHANGED <<provider, platform, config, authSessionResult, rnd, op, sent,
                 opened, pre, prev>>

\* response.json() resolves; getUserInfo returns the UserInfo.
GetUserInfoJson(p) ==
  /\ pc[p] = "response.json:userinfo"
  /\ Settle(p, ReturnedWith(UserInfoJson))
  /\ NoStorageCall(p)
  /\ UNCHANGED <<provider, platform, config, authSessionResult, rnd, op, local, sent,
                 opened, pre, prev>>

\* --------------------------------------------------- client: isAuthenticated
\* Faulty variant: Boolean() of the pending promise (a missing await).
Boolean_OfPromise(token) == TRUE

\* Boolean(token)
Boolean(token) == ~Falsy(token)

\* isAuthenticated() is invoked: storage.getItem("accessToken") is called.
IsAuthenticated(p) ==
  /\ Invoke(p, "isAuthenticated", "getItem:accessToken")
  /\ CallStorage(p, "getItem", AccessToken, NULL)
  /\ UNCHANGED provider

\* return Boolean(await this.storage.getItem("accessToken"));
IsAuthenticatedReturn(p) ==
  /\ op[p] = "isAuthenticated"
  /\ pc[p] = "getItem:accessToken"
  /\ Returned(p)
  /\ Settle(p, ReturnedWith(Boolean(sop[p].ret)))
  /\ NoStorageCall(p)
  /\ UNCHANGED <<provider, platform, config, authSessionResult, rnd, op, local, sent,
                 opened, pre, prev>>

\* ------------------------------------------------- the store used directly
\* Values handed to setItem: any string, the empty one included.
StoreValues == {"", "s1"}

\* storage.getItem(key) is called on the client's store.
StorageGetItem(p) ==
  \E key \in PersistKeys :
    /\ InvokeWith(p, "storage.getItem", "storage",
                  [NoLocal EXCEPT !.key = key, !.client = config.clientId])
    /\ CallStorage(p, "getItem", key, NULL)
    /\ UNCHANGED provider

\* storage.setItem(key, value) is called on the client's store.
StorageSetItem(p) ==
  \E key \in PersistKeys, value \in StoreValues :
    /\ rnd < MaxStoreSets
    /\ InvokeWith(p, "storage.setItem", "storage",
                  [NoLocal EXCEPT !.key = key, !.value = value,
                                  !.client = config.clientId])
    /\ CallStorage(p, "setItem", key, value)
    /\ UNCHANGED provider

\* storage.removeItem(key) is called on the client's store.
StorageRemoveItem(p) ==
  \E key \in PersistKeys :
    /\ InvokeWith(p, "storage.removeItem", "storage",
                  [NoLocal EXCEPT !.key = key, !.client = config.clientId])
    /\ CallStorage(p, "removeItem", key, NULL)
    /\ UNCHANGED provider

\* The storage method returns to its caller: getItem with the value read,
\* setItem and removeItem with nothing.
StorageReturn(p) ==
  /\ op[p] \in StorageMethods
  /\ pc[p] = "storage"
  /\ Returned(p)
  /\ Settle(p, ReturnedWith(sop[p].ret))
  /\ NoStorageCall(p)
  /\ UNCHANGED <<provider, platform, config, authSessionResult, rnd, op, local, sent,
                 opened, pre, prev>>

\* ------------------------------------------------- SalesforceAuthProvider
\* The provider component: the number of the client instance its useMemo
\* holds (0 while the component is not mounted), the two useState values,
\* the client instance whose effect has been started last, and the client
\* instance whose isAuthenticated() result the state was last set from.
Unmounted == [client |-> 0, isAuthenticated |-> FALSE, isInitialized |-> FALSE,
              effect |-> 0, fetched |-> 0]

Mounted == provider.client # 0

\* The continuation of the hook callback or of the effect that awaits call p
\* has not run yet.
AwaitsResume(p) ==
  Settled(p) /\ local[p].caller # NULL /\ ~local[p].resumed

\* No call is in flight, no continuation is left to run, and the effect of
\* the memoized client has been started.
Idle ==
  /\ provider.effect = provider.client
  /\ \A q \in Calls : ~InFlight(q) /\ ~AwaitsResume(q)

\* The frame of a callback of the component tree that calls the client: who
\* calls, on which client instance, and the flag at the time of the call.
CalledBy(caller) ==
  [NoLocal EXCEPT !.caller = caller, !.instance = provider.client,
                  !.flag = provider.isAuthenticated]

\* What the promise of an async callback settles with, given the outcome of
\* the client call it awaited: nothing, or the error of the client call.
HookSettles(out) == IF out.status = "returned" THEN ReturnedWith(NULL) ELSE out

\* The first render: useMemo constructs the client; nothing is fetched yet.
Mount ==
  /\ provider.client = 0
  /\ provider' = [provider EXCEPT !.client = 1]
  /\ UNCHANGED <<platform, config, storageVars, authSessionResult, rnd, op,
                 pc, local, sop, outcome, sent, opened, pre, prev, last>>

\* The config prop changes: useMemo constructs a new client from it, which
\* the context exposes from this render on; the two state values are kept.
ConfigChanges ==
  /\ Mounted
  /\ provider.client < MaxClients
  /\ \E id \in ProviderClientIds \ {config.clientId} :
       config' = [config EXCEPT !.clientId = id]
  /\ authSessionResult' = [type |-> "none", url |-> <<>>]
  /\ provider' = [provider EXCEPT !.client = @ + 1]
  /\ UNCHANGED <<platform, storageVars, rnd, op, pc, local, sop, outcome,
                 sent, opened, pre, prev, last>>

\* useEffect(..., [memorizedClient]): the effect runs for the memoized
\* client; its async function calls memorizedClient.isAuthenticated().
EffectRuns(p) ==
  /\ Mounted
  /\ provider.effect # provider.client
  /\ ~AwaitsResume(p)
  /\ InvokeWith(p, "isAuthenticated", "getItem:accessToken",
                CalledBy("effect"))
  /\ CallStorage(p, "getItem", AccessToken, NULL)
  /\ provider' = [provider EXCEPT !.effect = provider.client]

\* const isAuthenticated = await memorizedClient.isAuthenticated();
\* setIsAuthenticated(isAuthenticated); setIsInitialized(true);
\* When the call rejects, so does the async function, and nothing is set.
EffectResumes(p) ==
  /\ Settled(p)
  /\ local[p].caller = "effect"
  /\ ~local[p].resumed
  /\ local' = [local EXCEPT ![p].resumed = TRUE,
                            ![p].settled = HookSettles(outcome[p])]
  /\ provider' =
       IF outcome[p].status = "returned"
       THEN [provider EXCEPT !.isAuthenticated = outcome[p].value,
                             !.isInitialized = TRUE,
                             !.fetched = local[p].instance]
       ELSE provider
  /\ UNCHANGED <<platform, config, storageVars, authSessionResult, rnd, op,
                 pc, sop, outcome, sent, opened, pre, prev, last>>

\* ------------------------------------------------------- useSalesforceAuth
\* signIn of the hook is called: it calls client.signIn().
HookSignIn(p) ==
  /\ Mounted
  /\ ~AwaitsResume(p)
  /\ InvokeWith(p, "signIn", "generateRandomString:codeVerifier",
                CalledBy("hook.signIn"))
  /\ NoStorageCall(p)
  /\ UNCHANGED provider

\* signOut of the hook is called: it calls client.signOut().
HookSignOut(p) ==
  /\ Mounted
  /\ ~AwaitsResume(p)
  /\ InvokeWith(p, "signOut", "getItem:accessToken", CalledBy("hook.signOut"))
  /\ CallStorage(p, "getItem", AccessToken, NULL)
  /\ UNCHANGED provider

\* Faulty variant: the flag is set whether or not client.signOut() failed.
HookSignOutResumes_Always(p) ==
  /\ Settled(p)
  /\ local[p].caller = "hook.signOut"
  /\ ~local[p].resumed
  /\ local' = [local EXCEPT ![p].resumed = TRUE,
                            ![p].settled = HookSettles(outcome[p])]
  /\ provider' = [provider EXCEPT !.isAuthenticated = FALSE]
  /\ UNCHANGED <<platform, config, storageVars, authSessionResult, rnd, op,
                 pc, sop, outcome, sent, opened, pre, prev, last>>

\* await client.signIn(); setIsAuthenticated(true);
HookSignInResumes(p) ==
  /\ Settled(p)
  /\ local[p].caller = "hook.signIn"
  /\ ~local[p].resumed
  /\ local' = [local EXCEPT ![p].resumed = TRUE,
                            ![p].settled = HookSettles(outcome[p])]
  /\ provider' = IF outcome[p].status = "returned"
                 THEN [provider EXCEPT !.isAuthenticated = TRUE]
                 ELSE provider
  /\ UNCHANGED <<platform, config, storageVars, authSessionResult, rnd, op,
                 pc, sop, outcome, sent, opened, pre, prev, last>>

\* await client.signOut(); setIsAuthenticated(false);
HookSignOutResumes(p) ==
  /\ Settled(p)
  /\ local[p].caller = "hook.signOut"
  /\ ~local[p].resumed
  /\ local' = [local EXCEPT ![p].resumed = TRUE,
                            ![p].settled = HookSettles(outcome[p])]
  /\ provider' = IF outcome[p].status = "returned"
                 THEN [provider EXCEPT !.isAuthenticated = FALSE]
                 ELSE provider
  /\ UNCHANGED <<platform, config, storageVars, authSessionResult, rnd, op,
                 pc, sop, outcome, sent, opened, pre, prev, last>>

\* A freshly constructed client, and a component tree not mounted yet.
ClientConstructed ==
  /\ platform \in {"web", "native"}
  /\ config \in Configs
  /\ authSessionResult = [type |-> "none", url |-> <<>>]
  /\ rnd = 0
  /\ op = [p \in Calls |-> "none"]
  /\ pc = [p \in Calls |-> "idle"]
  /\ local = [p \in Calls |-> NoLocal]
  /\ sop = [p \in Calls |-> NoSop]
  /\ outcome = [p \in Calls |-> NoOutcome]
  /\ sent = [p \in Calls |-> <<>>]
  /\ opened = [p \in Calls |-> <<>>]
  /\ pre = [p \in Calls |-> EmptyMedia]
  /\ prev = [p \in Calls |-> NoCall]
  /\ last = NoCall
  /\ provider = Unmounted

\* A freshly constructed client; its persistent media hold nothing.
Constructed ==
  /\ ClientConstructed
  /\ asyncStorage = EmptyMap
  /\ secureStore = EmptyMap
  /\ localStorage = EmptyMap

\* A freshly constructed client over empty storage media.
Init ==
  /\ Constructed
  /\ sessionStorage = EmptyMap

\* No call is in flight on the client.
Quiescent == \A q \in Calls : ~InFlight(q)

\* The steps of a call in flight.
Step(p) ==
  \/ SignInCodeVerifier(p)
  \/ SignInCodeChallenge(p)
  \/ SignInState(p)
  \/ SignInAuthSession(p)
  \/ ExchangeFetch(p)
  \/ ExchangeJson(p)
  \/ ExchangeStoredAccess(p)
  \/ ExchangeStoredRefresh(p)
  \/ SignOutToken(p)
  \/ SignOutFetch(p)
  \/ SignOutRemovedAccess(p)
  \/ SignOutRemovedRefresh(p)
  \/ GetUserInfoToken(p)
  \/ GetUserInfoFetch(p)
  \/ GetUserInfoJson(p)
  \/ IsAuthenticatedReturn(p)
  \/ AsyncStorageGetItem(p)
  \/ SecureStoreGetItem(p)
  \/ EncryptGenerateKey(p)
  \/ SecureStoreSetItem(p)
  \/ AsyncStorageSetItem(p)
  \/ AsyncStorageRemoveItem(p)
  \/ SecureStoreDeleteItem(p)

\* A client method is invoked while no other call is in flight (the use the
\* design supports: at most one operation in flight per client instance).
Start(p) ==
  \/ Quiescent /\ SignIn(p)
  \/ Quiescent /\ SignOut(p)
  \/ Quiescent /\ GetUserInfo(p)
  \/ Quiescent /\ IsAuthenticated(p)

Next == \E p \in Calls : Start(p) \/ Step(p)

Spec == Init /\ [][Next]_vars

\* The same client over storage media whose operations may fail.
NextFaults == Next \/ \E p \in Calls : StorageRejects(p)

SpecFaults == Init /\ [][NextFaults]_vars

\* --- overlapping sign-ins: signIn() is invoked while another signIn() of
\* the same client is in flight
SignInStep(p) ==
  \/ SignInCodeVerifier(p)
  \/ SignInCodeChallenge(p)
  \/ SignInState(p)
  \/ SignInAuthSession(p)
  \/ ExchangeFetch(p)
  \/ ExchangeJson(p)
  \/ ExchangeStoredAccess(p)
  \/ ExchangeStoredRefresh(p)
  \/ EncryptGenerateKey(p)
  \/ SecureStoreSetItem(p)
  \/ AsyncStorageSetItem(p)

\* signIn() is invoked, whatever else is in flight.
SignInOverlapping(p) == rnd < MaxOverlapStart /\ SignIn(p)

NextOverlap == \E p \in Calls : SignInOverlapping(p) \/ SignInStep(p)

SpecOverlap == Init /\ [][NextOverlap]_vars

\* --- the provider and the hook, one operation at a time
\* The steps of the calls the provider and the hook make.
HookStep(p) ==
  \/ SignInCodeVerifier(p)
  \/ SignInCodeChallenge(p)
  \/ SignInState(p)
  \/ SignInAuthSession(p)
  \/ ExchangeFetch(p)
  \/ ExchangeJson(p)
  \/ ExchangeStoredAccess(p)
  \/ ExchangeStoredRefresh(p)
  \/ SignOutToken(p)
  \/ SignOutFetch(p)
  \/ SignOutRemovedAccess(p)
  \/ SignOutRemovedRefresh(p)
  \/ IsAuthenticatedReturn(p)
  \/ AsyncStorageGetItem(p)
  \/ SecureStoreGetItem(p)
  \/ EncryptGenerateKey(p)
  \/ SecureStoreSetItem(p)
  \/ AsyncStorageSetItem(p)
  \/ AsyncStorageRemoveItem(p)
  \/ SecureStoreDeleteItem(p)

\* The continuations of the effect and of the hook callbacks.
Resume(p) ==
  \/ EffectResumes(p)
  \/ HookSignInResumes(p)
  \/ HookSignOutResumes(p)

\* The effect runs once the render is committed; a hook callback is called
\* while nothing else is going on.
StartProvider(p) ==
  \/ EffectRuns(p)
  \/ Idle /\ HookSignIn(p)
  \/ Idle /\ HookSignOut(p)

\* The parent renders the provider with another config while nothing is
\* going on.
Rerender == Idle /\ ConfigChanges

NextProvider ==
  \/ Mount
  \/ Rerender
  \/ \E p \in Calls : StartProvider(p) \/ HookStep(p) \/ Resume(p)

SpecProvider == Init /\ [][NextProvider]_vars

\* --- the hook callbacks called whatever else is in flight
\* Tokens a sign-in of an earlier run of the application left stored.
EarlierSession ==
  IF platform = "web"
  THEN [EmptyMedia EXCEPT
          !.localStorage = MapSet(MapSet(EmptyMap, getKey(AccessToken), "AT0"),
                                  getKey(RefreshToken), "RT0")]
  ELSE [EmptyMedia EXCEPT
          !.asyncStorage =
             MapSet(MapSet(EmptyMap, getStorageKey(AccessToken),
                           AESEncrypt("AT0", "k1")),
                    getStorageKey(RefreshToken), AESEncrypt("RT0", "k2")),
          !.secureStore =
             MapSet(MapSet(EmptyMap, getStorageKey(AccessToken), "k1"),
                    getStorageKey(RefreshToken), "k2")]

\* The application starts with or without a session of an earlier run.
InitSession ==
  /\ ClientConstructed
  /\ \E m \in {EmptyMedia, EarlierSession} :
       /\ asyncStorage = m.asyncStorage
       /\ secureStore = m.secureStore
       /\ localStorage = m.localStorage
       /\ sessionStorage = m.sessionStorage

\* A continuation is ready to run for p: its storage call has returned, or
\* its client call has settled under a callback that awaits it.
Continuation(p) == AwaitsResume(p) \/ (InFlight(p) /\ Returned(p))

\* Continuations that are ready run before anything else happens.
Turn(p) == Continuation(p) \/ \A q \in Calls : ~Continuation(q)

StartOverlapping(p) ==
  \/ Turn(p) /\ EffectRuns(p)
  \/ /\ Turn(p)
     /\ provider.effect = provider.client
     /\ rnd < MaxHookStart
     /\ Cardinality({q \in Calls : op[q] = "signIn"}) < MaxHookSignIns
     /\ HookSignIn(p)
  \/ /\ Turn(p)
     /\ provider.effect = provider.client
     /\ Cardinality({q \in Calls : op[q] = "signOut"}) < MaxHookSignOuts
     /\ HookSignOut(p)

\* The steps of the calls, and the continuations of the callbacks.
StepOverlapping(p) ==
  \/ Turn(p) /\ SignInCodeVerifier(p)
  \/ Turn(p) /\ SignInCodeChallenge(p)
  \/ Turn(p) /\ SignInState(p)
  \/ Turn(p) /\ SignInAuthSession(p)
  \/ Turn(p) /\ ExchangeFetch(p)
  \/ Turn(p) /\ ExchangeJson(p)
  \/ Turn(p) /\ ExchangeStoredAccess(p)
  \/ Turn(p) /\ ExchangeStoredRefresh(p)
  \/ Turn(p) /\ SignOutToken(p)
  \/ Turn(p) /\ SignOutFetch(p)
  \/ Turn(p) /\ SignOutRemovedAccess(p)
  \/ Turn(p) /\ SignOutRemovedRefresh(p)
  \/ Turn(p) /\ IsAuthenticatedReturn(p)
  \/ Turn(p) /\ AsyncStorageGetItem(p)
  \/ Turn(p) /\ SecureStoreGetItem(p)
  \/ Turn(p) /\ EncryptGenerateKey(p)
  \/ Turn(p) /\ SecureStoreSetItem(p)
  \/ Turn(p) /\ AsyncStorageSetItem(p)
  \/ Turn(p) /\ AsyncStorageRemoveItem(p)
  \/ Turn(p) /\ SecureStoreDeleteItem(p)
  \/ Turn(p) /\ EffectResumes(p)
  \/ Turn(p) /\ HookSignInResumes(p)
  \/ Turn(p) /\ HookSignOutResumes(p)

NextProviderOverlap ==
  \/ Mount
  \/ \E p \in Calls : StartOverlapping(p) \/ StepOverlapping(p)

SpecProviderOverlap == InitSession /\ [][NextProviderOverlap]_vars

\* --- the mount of the provider over whatever the media hold
\* What the media may hold for an item when the application starts: on the
\* web a value or nothing; natively a ciphertext or none, and an encryption
\* key (the one of the ciphertext or another one) or none.
\* (<<>> for nothing, <<v>> for the entry v.)
StoredCiphertexts(value) == {<<>>, <<AESEncrypt(value, "k1")>>}
StoredEncryptionKeys == {<<>>, <<"k1">>, <<"k2">>}
StoredWebValues(value) == {<<>>, <<"">>, <<value>>}

\* The map `m` with the entry under `k`, if there is one.
MapWith(m, k, entry) == IF entry = <<>> THEN m ELSE MapSet(m, k, entry[1])

InitStored ==
  /\ ClientConstructed
  /\ sessionStorage = EmptyMap
  /\ IF platform = "web"
     THEN /\ asyncStorage = EmptyMap
          /\ secureStore = EmptyMap
          /\ \E a \in StoredWebValues("AT0"), r \in StoredWebValues("RT0") :
               localStorage =
                 MapWith(MapWith(EmptyMap, getKey(AccessToken), a),
                         getKey(RefreshToken), r)
     ELSE /\ localStorage = EmptyMap
          /\ \E a \in StoredCiphertexts("AT0"),
                r \in StoredCiphertexts("RT0") :
               asyncStorage =
                 MapWith(MapWith(EmptyMap, getStorageKey(AccessToken), a),
                         getStorageKey(RefreshToken), r)
          /\ \E a \in StoredEncryptionKeys, r \in StoredEncryptionKeys :
               secureStore =
                 MapWith(MapWith(EmptyMap, getStorageKey(AccessToken), a),
                         getStorageKey(RefreshToken), r)

\* The mount, the effect, and the steps of its isAuthenticated() call.
MountStep(p) ==
  \/ EffectRuns(p)
  \/ AsyncStorageGetItem(p)
  \/ SecureStoreGetItem(p)
  \/ IsAuthenticatedReturn(p)
  \/ EffectResumes(p)

NextMount == Mount \/ \E p \in Calls : MountStep(p)

\* React runs the effect once the render is committed, every storage
\* promise settles, and a continuation runs once its promise has settled.
SpecMount == InitStored /\ [][NextMount]_vars /\ WF_vars(NextMount)

\* --- the store on its own: the Storage interface called directly
\* An item an earlier version of the library left under the key without an
\* item name, which BrowserStorage.getItem("signInSession") still reads.
LegacySession == [k \in {getKey(NULL)} |-> "legacy"]

\* The store of a freshly constructed client; the session storage of the
\* page may still hold the legacy item.
InitStore ==
  /\ Constructed
  /\ sessionStorage \in {EmptyMap, LegacySession}

\* The steps inside a SecureStorage method, and the return of a storage
\* method to its caller.
StoreStep(p) ==
  \/ AsyncStorageGetItem(p)
  \/ SecureStoreGetItem(p)
  \/ EncryptGenerateKey(p)
  \/ SecureStoreSetItem(p)
  \/ AsyncStorageSetItem(p)
  \/ AsyncStorageRemoveItem(p)
  \/ SecureStoreDeleteItem(p)
  \/ StorageReturn(p)

\* Storage methods are called one after the other.
StartStore(p) ==
  \/ Quiescent /\ StorageGetItem(p)
  \/ Quiescent /\ StorageSetItem(p)
  \/ Quiescent /\ StorageRemoveItem(p)

NextStore == \E p \in Calls : StartStore(p) \/ StoreStep(p)

SpecStore == InitStore /\ [][NextStore]_vars

\* One of the two deletions of removeItem rejects; the other one takes
\* effect or not.
RemovalRejects(p) ==
  /\ sop[p].fn = "removeItem"
  /\ StorageRejects(p)

\* Storage methods are called one after the other, over media whose
\* deletions may fail.
StartStoreFaults(p) ==
  \/ Quiescent /\ StorageGetItem(p)
  \/ Quiescent /\ rnd < MaxFaultySets /\ StorageSetItem(p)
  \/ Quiescent /\ StorageRemoveItem(p)

NextStoreFaults ==
  \E p \in Calls : StartStoreFaults(p) \/ StoreStep(p) \/ RemovalRejects(p)

SpecStoreFaults == InitStore /\ [][NextStoreFaults]_vars

\* ====================================================================
\* Properties
\* ====================================================================

\* signIn call p is past its browser step (it never settles before it).
PastBrowser(p) ==
  /\ op[p] = "signIn"
  /\ pc[p] \in {"fetch:token", "response.json:token", "setItem:accessToken",
                "setItem:refreshToken", "done"}

\* No item at all is stored for `key` on any medium.
EntryAbsent(key) ==
  /\ getKey(key) \notin DOMAIN localStorage
  /\ getKey(key) \notin DOMAIN sessionStorage
  /\ getStorageKey(key) \notin DOMAIN asyncStorage
  /\ getStorageKey(key) \notin DOMAIN secureStore

\* The typed failures of signIn.
SignInFailures ==
  { SalesforceAuthError(c) :
      c \in {"auth_session_failed", "invalid_state", "token_exchange_failed"} }

\* C1: for a signIn whose browser step resolved with `success`: if the
\* redirect has no or an empty `code`, or its `state` is absent or not exactly
\* the state this call generated, the call has failed with invalid_state and
\* has sent nothing to the token endpoint; otherwise it has gone on to the
\* token exchange (exactly one token request, carrying that code).  Under
\* Spec calls do not overlap, so authSessionResult is the result of the
\* signIn that is past its browser step.
C1_StateBinding ==
  \A p \in Calls :
    (PastBrowser(p) /\ authSessionResult.type = "success") =>
      LET code == SearchParamsGet(authSessionResult.url, "code")
          returnedState == SearchParamsGet(authSessionResult.url, "state")
      IN IF \/ code = NULL
            \/ code = ""
            \/ returnedState = NULL
            \/ returnedState # local[p].state
         THEN /\ Settled(p)
              /\ outcome[p] = SalesforceAuthError("invalid_state")
              /\ sent[p] = <<>>
         ELSE /\ Len(sent[p]) = 1
              /\ sent[p][1].url = tokenEndpoint
              /\ SearchParamsGet(sent[p][1].body, "code") = code
              /\ outcome[p] \notin SignInFailures
                                  \ {SalesforceAuthError("token_exchange_failed")}

\* C1 witness: a redirect with a code whose state differs from the generated
\* one by one appended character was rejected with invalid_state.
C1_Witness ==
  \E p \in Calls :
    /\ PastBrowser(p)
    /\ authSessionResult.type = "success"
    /\ SearchParamsGet(authSessionResult.url, "code") = "ABC123"
    /\ SearchParamsGet(authSessionResult.url, "state") = local[p].state \o "x"
    /\ outcome[p] = SalesforceAuthError("invalid_state")

\* C2: when signIn has failed with auth_session_failed, invalid_state or
\* token_exchange_failed, the storage media are exactly as they were when the
\* call started; and an isAuthenticated() made right after such a failure
\* returns what held before the signIn (false from empty storage, true from
\* an existing session).
C2_FailedSignInKeepsStore ==
  /\ \A p \in Calls :
       (op[p] = "signIn" /\ Settled(p) /\ outcome[p] \in SignInFailures)
         => Media = pre[p]
  /\ \A q \in Calls :
       (/\ op[q] = "isAuthenticated" /\ Settled(q)
        /\ prev[q].op = "signIn" /\ prev[q].outcome \in SignInFailures)
         => outcome[q] = ReturnedWith(prev[q].hadToken)

\* C2 witness: a signIn started over an existing session (access and refresh
\* token stored) has failed at the token exchange.
C2_Witness ==
  \E p \in Calls :
    /\ op[p] = "signIn" /\ Settled(p)
    /\ outcome[p] = SalesforceAuthError("token_exchange_failed")
    /\ StoredValue(pre[p], AccessToken) # NULL
    /\ StoredValue(pre[p], RefreshToken) # NULL

\* C3: a settled isAuthenticated() has returned true exactly if an access
\* token was stored under the client's accessToken key when it was called; it
\* has sent no request, opened no browser session and left the storage media
\* as they were.
C3_IsAuthenticatedPure ==
  \A p \in Calls :
    op[p] = "isAuthenticated" =>
      /\ sent[p] = <<>>
      /\ opened[p] = <<>>
      /\ Media = pre[p]
      /\ Settled(p) => outcome[p] = ReturnedWith(HoldsToken(pre[p]))

\* C3 witness: isAuthenticated() returned true after a signIn.
C3_Witness ==
  \E p \in Calls :
    /\ op[p] = "isAuthenticated" /\ Settled(p)
    /\ prev[p].op = "signIn"
    /\ outcome[p] = ReturnedWith(TRUE)

\* C4: when signIn has returned after a token response carrying access token
\* A and refresh token R, the stored accessToken is A and the stored
\* refreshToken is R; and an isAuthenticated() made right after a successful
\* signIn returns true.
C4_SignInStoresTokens ==
  /\ \A p \in Calls :
       (/\ op[p] = "signIn" /\ Settled(p) /\ outcome[p] = ReturnedWith(NULL)
        /\ local[p].refresh_token # NULL)
         => /\ StoredValue(Media, AccessToken) = local[p].access_token
            /\ StoredValue(Media, RefreshToken) = local[p].refresh_token
  /\ \A q \in Calls :
       (/\ op[q] = "isAuthenticated" /\ Settled(q)
        /\ prev[q].op = "signIn" /\ prev[q].outcome = ReturnedWith(NULL))
         => outcome[q] = ReturnedWith(TRUE)

\* C4 witness: a signIn returned after the response {AT1, RT1}.
C4_Witness ==
  \E p \in Calls :
    /\ op[p] = "signIn" /\ Settled(p) /\ outcome[p] = ReturnedWith(NULL)
    /\ local[p].access_token = "AT1"
    /\ local[p].refresh_token = "RT1"

\* C5: a signIn whose browser step resolved with any type other than
\* `success` has failed with auth_session_failed, has extracted no code from
\* a redirect URL and has sent no request.
C5_AuthSessionFailed ==
  \A p \in Calls :
    (PastBrowser(p) /\ authSessionResult.type # "success") =>
      /\ Settled(p)
      /\ outcome[p] = SalesforceAuthError("auth_session_failed")
      /\ local[p].code = NULL
      /\ sent[p] = <<>>

\* C5 witness: the browser step resolved with `dismiss`.
C5_Witness ==
  \E p \in Calls :
    /\ PastBrowser(p)
    /\ authSessionResult.type = "dismiss"
    /\ outcome[p] = SalesforceAuthError("auth_session_failed")

\* C6: after signOut() has returned without error, from whatever storage
\* state it was called in, neither an access token nor a refresh token is
\* stored; and an isAuthenticated() made right after returns false (if it
\* returns).
C6_SignOutClears ==
  /\ \A p \in Calls :
       (op[p] = "signOut" /\ Settled(p) /\ outcome[p] = ReturnedWith(NULL))
         => /\ StoredValue(Media, AccessToken) = NULL
            /\ StoredValue(Media, RefreshToken) = NULL
  /\ \A q \in Calls :
       (/\ op[q] = "isAuthenticated" /\ Settled(q)
        /\ prev[q].op = "signOut" /\ prev[q].outcome = ReturnedWith(NULL)
        /\ outcome[q].status = "returned")
         => outcome[q].value = FALSE

C8_SignOutRevokesThenClears ==
  \A p \in Calls :
    (op[p] = "signOut" /\ HoldsToken(pre[p])) =>
      /\ pc[p] = "getItem:accessToken" => sent[p] = <<>>
      /\ pc[p] # "getItem:accessToken" =>
           /\ Len(sent[p]) = 1
           /\ sent[p][1].url = revocationEndpoint
           /\ SearchParamsGet(sent[p][1].body, "token")
                = StoredValue(pre[p], AccessToken)
      /\ pc[p] \in {"getItem:accessToken", "fetch:revoke"} => Media = pre[p]
      /\ (Settled(p) /\ local[p].response.settled = "resolved") =>
           /\ outcome[p] = ReturnedWith(NULL)
           /\ EntryAbsent(AccessToken)
           /\ EntryAbsent(RefreshToken)

\* C8 witness: a signOut() over a stored access and refresh token has settled
\* after a non-success revocation response.
C8_Witness ==
  \E p \in Calls :
    /\ op[p] = "signOut" /\ Settled(p)
    /\ StoredValue(pre[p], AccessToken) # NULL
    /\ StoredValue(pre[p], RefreshToken) # NULL
    /\ local[p].response = [settled |-> "resolved", ok |-> FALSE]

\* C9: when the revocation request of signOut() is rejected, signOut() has
\* failed with that rejection, the storage media are as they were (access and
\* refresh entries kept), and an isAuthenticated() made right after returns
\* true.
C9_RevocationFailurePropagates ==
  /\ \A p \in Calls :
       (/\ op[p] = "signOut" /\ Settled(p)
        /\ local[p].response.settled = "rejected") =>
         /\ outcome[p] = FetchRejection
         /\ Media = pre[p]
         /\ StoredValue(Media, AccessToken) # NULL
  /\ \A q \in Calls :
       (/\ op[q] = "isAuthenticated" /\ Settled(q)
        /\ prev[q].op = "signOut" /\ prev[q].outcome = FetchRejection)
         => outcome[q] = ReturnedWith(TRUE)

\* C9 witness: a signOut() over a stored access and refresh token has settled
\* after its revocation request was rejected.
C9_Witness ==
  \E p \in Calls :
    /\ op[p] = "signOut" /\ Settled(p)
    /\ local[p].response.settled = "rejected"
    /\ StoredValue(Media, AccessToken) # NULL
    /\ StoredValue(Media, RefreshToken) # NULL

\* C10: every failure a client operation settles with is a
\* SalesforceAuthError carrying one of the five codes.
C10_ClosedTaxonomy ==
  \A p \in Calls :
    outcome[p].status = "threw" =>
      /\ outcome[p].name = "SalesforceAuthError"
      /\ outcome[p].code \in SalesforceAuthErrorCodes

\* --- two clients over the same media
\* The client identifiers of two client instances that share the media.
StoreClients == {"C1", "C1:signInSession"}

\* The storage calls that follow are made on the store of the other client
\* instance (constructed with the other client identifier).
OtherClient ==
  /\ Quiescent
  /\ \E id \in StoreClients \ {config.clientId} :
       config' = [config EXCEPT !.clientId = id]
  /\ UNCHANGED <<provider, platform, storageVars, authSessionResult, rnd, op, pc, local,
                 sop, outcome, sent, opened, pre, prev, last>>

\* The number of items the media hold.
StoredItems ==
  Cardinality(DOMAIN localStorage \cup DOMAIN sessionStorage
                \cup DOMAIN asyncStorage)

\* Storage methods are called one after the other, on either store.
StartTwoClients(p) ==
  \/ Quiescent /\ StorageGetItem(p)
  \/ Quiescent /\ StoredItems < MaxSharedItems /\ StorageSetItem(p)
  \/ Quiescent /\ StorageRemoveItem(p)

NextTwoClients ==
  \/ \E p \in Calls : StartTwoClients(p) \/ StoreStep(p)
  \/ OtherClient

SpecTwoClients == Init /\ [][NextTwoClients]_vars

\* --- the browser store across browsing contexts
\* The browsing context ends and a new one starts: the session storage is
\* cleared, the local storage stays.
BrowsingContextEnds ==
  /\ platform = "web"
  /\ Quiescent
  /\ sessionStorage' = EmptyMap
  /\ last' = [op |-> "browsingContextEnds", outcome |-> NoOutcome,
              hadToken |-> FALSE, written |-> last.written]
  /\ UNCHANGED <<provider, platform, config, asyncStorage, secureStore, localStorage,
                 authSessionResult, rnd, op, pc, local, sop, outcome, sent,
                 opened, pre, prev>>

NextBrowser == NextStore \/ BrowsingContextEnds

SpecBrowser == InitStore /\ [][NextBrowser]_vars

\* --- the Token Store contract

\* A settled call of storage.getItem.
GetSettled(p) == op[p] = "storage.getItem" /\ Settled(p)

\* What the media `m` hold for `key` alone, medium by medium.
KeyEntries(m, key) ==
  [asyncStorage |-> [x \in DOMAIN m.asyncStorage \cap {getStorageKey(key)}
                       |-> m.asyncStorage[x]],
   secureStore |-> [x \in DOMAIN m.secureStore \cap {getStorageKey(key)}
                      |-> m.secureStore[x]],
   localStorage |-> [x \in DOMAIN m.localStorage \cap {getKey(key)}
                       |-> m.localStorage[x]],
   sessionStorage |-> [x \in DOMAIN m.sessionStorage \cap {getKey(key)}
                         |-> m.sessionStorage[x]]]

\* C11: on either store, a setItem(k, s) that has returned leaves s as the
\* value stored for k, and a getItem(k) made when the last completed mutation
\* of k was a setItem(k, s) (no removal, no failed or other write of k since,
\* whatever k held before and whatever was done to other keys) returns
\* exactly s, the empty string included.
C11_SetThenGet ==
  /\ \A p \in Calls :
       (op[p] = "storage.setItem" /\ Settled(p)) =>
         /\ outcome[p] = ReturnedWith(NULL)
         /\ StoredValue(Media, local[p].key) = local[p].value
  /\ \A p \in Calls :
       (GetSettled(p) /\ prev[p].written[local[p].key] \in StoreValues) =>
         outcome[p] = ReturnedWith(prev[p].written[local[p].key])

\* C11 witness: on the SecureStorage, two setItem calls were made, the second
\* one (its encryption key is the second random string) storing the empty
\* string for the key that a getItem made right after it has read back.
C11_Witness ==
  \E p \in Calls :
    /\ GetSettled(p)
    /\ platform = "native"
    /\ prev[p].op = "storage.setItem"
    /\ MapGet(secureStore, getStorageKey(local[p].key)) = RandomString(2)
    /\ \A k \in PersistKeys \ {local[p].key} :
         getStorageKey(k) \notin DOMAIN secureStore
    /\ outcome[p] = ReturnedWith("")

C13_PartialEntryReadsNull ==
  \A p \in Calls :
    (/\ GetSettled(p)
     /\ platform = "native"
     /\ \/ getStorageKey(local[p].key) \notin DOMAIN pre[p].secureStore
        \/ getStorageKey(local[p].key) \notin DOMAIN pre[p].asyncStorage) =>
      /\ outcome[p] = ReturnedWith(NULL)
      /\ Media = pre[p]

\* C13 witness: a removeItem(k) failed after deleting the encryption key
\* only; the ciphertext is still stored, and a getItem(k) has returned null.
C13_Witness ==
  \E p \in Calls :
    /\ GetSettled(p)
    /\ platform = "native"
    /\ prev[p].op = "storage.removeItem"
    /\ prev[p].written[local[p].key] = Unknown
    /\ getStorageKey(local[p].key) \in DOMAIN pre[p].asyncStorage
    /\ getStorageKey(local[p].key) \notin DOMAIN pre[p].secureStore
    /\ outcome[p] = ReturnedWith(NULL)

\* C14: on either store, a removeItem(k) never changes what is stored for
\* another key (nor the legacy item) and returns without error; called for a
\* key that holds nothing, because it was never set or was removed before,
\* it leaves the media exactly as they were, so that removing twice leaves
\* what removing once left.
C14_RemoveIdempotent ==
  \A p \in Calls :
    op[p] = "storage.removeItem" =>
      /\ \A k \in PersistKeys \ {local[p].key} :
           KeyEntries(Media, k) = KeyEntries(pre[p], k)
      /\ MapGet(sessionStorage, getKey(NULL))
           = MapGet(pre[p].sessionStorage, getKey(NULL))
      /\ Settled(p) =>
           /\ outcome[p] = ReturnedWith(NULL)
           /\ KeyEntries(Media, local[p].key) = KeyEntries(EmptyMedia, local[p].key)
      /\ prev[p].written[local[p].key] = NULL => Media = pre[p]

\* C14 witness: on the SecureStorage, with another key's item stored, a
\* removeItem of a key that holds nothing has returned right after another
\* removeItem.
C14_Witness ==
  \E p \in Calls :
    /\ op[p] = "storage.removeItem" /\ Settled(p)
    /\ platform = "native"
    /\ prev[p].op = "storage.removeItem"
    /\ prev[p].written[local[p].key] = NULL
    /\ \E k \in PersistKeys \ {local[p].key} : StoredValue(Media, k) # NULL
    /\ outcome[p] = ReturnedWith(NULL)

\* --- getUserInfo and the token exchange

\* C15: a getUserInfo() called while no access token is stored sends no
\* request, leaves the storage media alone and fails with not_authenticated.
C15_NotAuthenticated ==
  \A p \in Calls :
    (op[p] = "getUserInfo" /\ ~HoldsToken(pre[p])) =>
      /\ sent[p] = <<>>
      /\ opened[p] = <<>>
      /\ Media = pre[p]
      /\ Settled(p) => outcome[p] = SalesforceAuthError("not_authenticated")

\* C15 witness: getUserInfo() has failed with not_authenticated right after
\* a signOut() that removed a stored token.
C15_Witness ==
  \E p \in Calls :
    /\ op[p] = "getUserInfo" /\ Settled(p)
    /\ prev[p].op = "signOut" /\ prev[p].hadToken
    /\ prev[p].outcome = ReturnedWith(NULL)
    /\ outcome[p] = SalesforceAuthError("not_authenticated")

\* C16: every getUserInfo() called while an access token is stored sends
\* exactly one request, a GET to the userinfo endpoint carrying the token
\* stored when it was called (also when the call before was a getUserInfo()
\* too); a non-success response makes it fail with userinfo_request_failed, a
\* success response makes it return the body; and at every point of the call,
\* whatever its outcome, the storage media are as they were.
C16_UserInfoReadThrough ==
  \A p \in Calls :
    (op[p] = "getUserInfo" /\ HoldsToken(pre[p])) =>
      /\ Media = pre[p]
      /\ pc[p] = "getItem:accessToken" => sent[p] = <<>>
      /\ pc[p] # "getItem:accessToken" =>
           /\ Len(sent[p]) = 1
           /\ sent[p][1].url = userInfoEndpoint
           /\ sent[p][1].method = "GET"
           /\ sent[p][1].authorization
                = "Bearer " \o StoredValue(pre[p], AccessToken)
      /\ (Settled(p) /\ local[p].response.settled = "resolved") =>
           outcome[p] = IF local[p].response.ok
                          THEN ReturnedWith(UserInfoJson)
                        ELSE SalesforceAuthError("userinfo_request_failed")

\* C16 witness: a second getUserInfo() in a row has sent its own request and
\* failed with userinfo_request_failed, access and refresh token stored.
C16_Witness ==
  \E p \in Calls :
    /\ op[p] = "getUserInfo" /\ Settled(p)
    /\ prev[p].op = "getUserInfo"
    /\ Len(sent[p]) = 1
    /\ outcome[p] = SalesforceAuthError("userinfo_request_failed")
    /\ StoredValue(Media, AccessToken) # NULL
    /\ StoredValue(Media, RefreshToken) # NULL

\* C17: a signIn() opens at most one browser authorization session and sends
\* at most one request, to the token endpoint; when that request is answered
\* with a non-success response the call has failed with
\* token_exchange_failed.
C17_NoRetry ==
  \A p \in Calls :
    op[p] = "signIn" =>
      /\ Len(opened[p]) <= 1
      /\ Len(sent[p]) <= 1
      /\ \A i \in 1..Len(sent[p]) : sent[p][i].url = tokenEndpoint
      /\ (local[p].response.settled = "resolved" /\ ~local[p].response.ok) =>
           /\ Settled(p)
           /\ outcome[p] = SalesforceAuthError("token_exchange_failed")

\* C17 witness: a signIn() has failed with token_exchange_failed after one
\* browser session and one token request.
C17_Witness ==
  \E p \in Calls :
    /\ op[p] = "signIn" /\ Settled(p)
    /\ local[p].response = [settled |-> "resolved", ok |-> FALSE]
    /\ Len(opened[p]) = 1
    /\ Len(sent[p]) = 1
    /\ outcome[p] = SalesforceAuthError("token_exchange_failed")

\* C18: once a signIn() has read a successful token response, the access
\* token entry is written with the response's access_token; the refresh token
\* entry is written, with the response's refresh_token, exactly if the
\* response has one: when it has none, what is stored for the refresh token
\* is at every point of the call what it was when the call started.
C18_RefreshTokenIffPresent ==
  \A p \in Calls :
    (op[p] = "signIn" /\ local[p].access_token # NULL) =>
      /\ (Settled(p) /\ outcome[p] = ReturnedWith(NULL)) =>
           /\ StoredValue(Media, AccessToken) = local[p].access_token
           /\ local[p].refresh_token # NULL =>
                StoredValue(Media, RefreshToken) = local[p].refresh_token
      /\ local[p].refresh_token = NULL =>
           KeyEntries(Media, RefreshToken) = KeyEntries(pre[p], RefreshToken)
      /\ Settled(p) => outcome[p] = ReturnedWith(NULL)

\* C18 witness: a signIn() over a stored refresh token has returned after a
\* token response without refresh_token; the earlier refresh token is still
\* stored, next to the new access token.
C18_Witness ==
  \E p \in Calls :
    /\ op[p] = "signIn" /\ Settled(p) /\ outcome[p] = ReturnedWith(NULL)
    /\ local[p].access_token = "AT2"
    /\ local[p].refresh_token = NULL
    /\ StoredValue(pre[p], RefreshToken) = "RT1"
    /\ StoredValue(Media, RefreshToken) = "RT1"
    /\ StoredValue(Media, AccessToken) = "AT2"

\* --- PKCE values of a sign-in

\* The strings token responses carry.
TokenStrings ==
  ({t.access_token : t \in TokenResponses}
     \cup {t.refresh_token : t \in TokenResponses}) \ {NULL}

\* The PKCE values and the state generated by the calls at hand.
AttemptValues ==
  UNION { {local[p].codeVerifier, local[p].codeChallenge, local[p].state} :
          p \in Calls } \ {NULL}

\* Every string held by a storage medium: items, plaintexts, encryption keys.
StoredStrings ==
  {localStorage[k] : k \in DOMAIN localStorage}
    \cup {sessionStorage[k] : k \in DOMAIN sessionStorage}
    \cup {asyncStorage[k].cipher : k \in DOMAIN asyncStorage}
    \cup {asyncStorage[k].under : k \in DOMAIN asyncStorage}
    \cup {secureStore[k] : k \in DOMAIN secureStore}

\* C19: for every signIn(), also with another signIn() of the same client in
\* flight: the authorization URL carries the challenge of the call's own
\* verifier, and its redirect_uri is the return target handed to the browser
\* step; the token request carries the verifier whose challenge is in that
\* URL, and the same redirect_uri.
C19_PkceBinding ==
  \A p \in Calls :
    op[p] = "signIn" =>
      /\ Len(opened[p]) >= 1 =>
           /\ SearchParamsGet(opened[p][1].url.params, "code_challenge")
                = generateCodeChallenge(local[p].codeVerifier)
           /\ SearchParamsGet(opened[p][1].url.params, "redirect_uri")
                = opened[p][1].redirectUrl
      /\ Len(sent[p]) >= 1 =>
           /\ Len(opened[p]) = 1
           /\ generateCodeChallenge(
                SearchParamsGet(sent[p][1].body, "code_verifier"))
                = SearchParamsGet(opened[p][1].url.params, "code_challenge")
           /\ SearchParamsGet(sent[p][1].body, "redirect_uri")
                = SearchParamsGet(opened[p][1].url.params, "redirect_uri")
           /\ SearchParamsGet(sent[p][1].body, "redirect_uri")
                = opened[p][1].redirectUrl

\* C19 witness: two signIn() calls of a client configured with its own
\* redirect URI are in flight at once, each with its token request sent,
\* their verifiers differing.
C19_Witness ==
  \E p, q \in Calls :
    /\ p # q
    /\ op[p] = "signIn" /\ op[q] = "signIn"
    /\ pc[p] = "fetch:token" /\ pc[q] = "fetch:token"
    /\ config.redirectUri # NULL
    /\ SearchParamsGet(sent[p][1].body, "code_verifier")
         # SearchParamsGet(sent[q][1].body, "code_verifier")

\* C20: whatever sign-ins have run or are in flight, the media hold items
\* under the client's accessToken and refreshToken keys only (nothing under
\* signInSession, nothing in the session storage), the values stored are
\* token strings, no verifier, challenge or state of a call is held by any
\* medium; and a signIn() that went on to the token exchange was handed its
\* own state, which is no other call's state, while one handed another
\* call's state has failed with invalid_state.
C20_PkceNeverPersisted ==
  /\ DOMAIN localStorage \subseteq {getKey(AccessToken), getKey(RefreshToken)}
  /\ DOMAIN sessionStorage = {}
  /\ DOMAIN asyncStorage
       \subseteq {getStorageKey(AccessToken), getStorageKey(RefreshToken)}
  /\ DOMAIN secureStore
       \subseteq {getStorageKey(AccessToken), getStorageKey(RefreshToken)}
  /\ \A k \in DOMAIN localStorage : localStorage[k] \in TokenStrings
  /\ \A k \in DOMAIN asyncStorage : asyncStorage[k].cipher \in TokenStrings
  /\ AttemptValues \cap StoredStrings = {}
  /\ \A p \in Calls :
       op[p] = "signIn" =>
         /\ local[p].code # NULL =>
              /\ local[p].returnedState = local[p].state
              /\ \A q \in Calls \ {p} :
                   local[p].returnedState # local[q].state
         /\ (\E q \in Calls \ {p} :
               local[q].state # NULL /\ local[p].returnedState = local[q].state)
              => outcome[p] = SalesforceAuthError("invalid_state")

\* C20 witness: of two overlapping signIn() calls, one was handed a redirect
\* with a code and the state of the other and has failed with invalid_state,
\* while the other one has stored its tokens.
C20_Witness ==
  \E p, q \in Calls :
    /\ p # q
    /\ op[p] = "signIn" /\ op[q] = "signIn"
    /\ local[q].state # NULL
    /\ local[p].returnedState = local[q].state
    /\ outcome[p] = SalesforceAuthError("invalid_state")
    /\ outcome[q] = ReturnedWith(NULL)
    /\ StoredValue(Media, AccessToken) # NULL

\* --- namespaces and scopes of the stores

\* The key under which the store of client `id` keeps `key` on this platform.
KeyOf(id, key) ==
  IF platform = "web" THEN keyPrefix \o ":" \o id \o ":" \o key
  ELSE "salesforce." \o id \o "." \o key

\* What the media `m` hold for `key` of client `id`, medium by medium.
EntriesOf(id, m, key) ==
  [asyncStorage |-> [x \in DOMAIN m.asyncStorage \cap {KeyOf(id, key)}
                       |-> m.asyncStorage[x]],
   secureStore |-> [x \in DOMAIN m.secureStore \cap {KeyOf(id, key)}
                      |-> m.secureStore[x]],
   localStorage |-> [x \in DOMAIN m.localStorage \cap {KeyOf(id, key)}
                       |-> m.localStorage[x]],
   sessionStorage |-> [x \in DOMAIN m.sessionStorage \cap {KeyOf(id, key)}
                         |-> m.sessionStorage[x]]]

\* The value the store of client `id` has written for `key`, null if none.
ValueOf(id, m, key) ==
  IF platform = "web"
  THEN IF key = SignInSession THEN MapGet(m.sessionStorage, KeyOf(id, key))
       ELSE MapGet(m.localStorage, KeyOf(id, key))
  ELSE IF /\ KeyOf(id, key) \in DOMAIN m.asyncStorage
          /\ KeyOf(id, key) \in DOMAIN m.secureStore
       THEN m.asyncStorage[KeyOf(id, key)].cipher
       ELSE NULL

\* C21: with two client instances of different client identifiers over the
\* same media, a setItem or removeItem made on one store never changes what
\* the media hold for any key of the other client, and a getItem made on one
\* store returns what that store itself has written for the key (null if
\* nothing), never an entry of the other client.
C21_NoCollision ==
  \A p \in Calls :
    op[p] \in StorageMethods =>
      /\ \A id \in StoreClients \ {local[p].client} :
           \A k \in PersistKeys :
             EntriesOf(id, Media, k) = EntriesOf(id, pre[p], k)
      /\ GetSettled(p) =>
           outcome[p] = ReturnedWith(ValueOf(local[p].client, pre[p], local[p].key))

\* C22: on the BrowserStorage, the local storage only ever holds items under
\* the accessToken and refreshToken keys, the session storage only under the
\* signInSession key (or the legacy key); and right after the browsing
\* context has ended, getItem("signInSession") returns null while
\* getItem of accessToken or refreshToken returns the value last set.
C22_BrowserScopes ==
  platform = "web" =>
    /\ DOMAIN localStorage \subseteq {getKey(AccessToken), getKey(RefreshToken)}
    /\ DOMAIN sessionStorage \subseteq {getKey(SignInSession), getKey(NULL)}
    /\ \A p \in Calls :
         (GetSettled(p) /\ prev[p].op = "browsingContextEnds") =>
           outcome[p] = ReturnedWith(IF local[p].key = SignInSession THEN NULL
                                    ELSE prev[p].written[local[p].key])

\* C22 witness: signInSession and accessToken were set, the browsing context
\* ended, and a getItem("signInSession") made right after has returned null,
\* the accessToken item still being stored.
C22_Witness ==
  \E p \in Calls :
    /\ platform = "web"
    /\ GetSettled(p)
    /\ prev[p].op = "browsingContextEnds"
    /\ local[p].key = SignInSession
    /\ prev[p].written[SignInSession] = "s1"
    /\ prev[p].written[AccessToken] = "s1"
    /\ outcome[p] = ReturnedWith(NULL)
    /\ MapGet(localStorage, getKey(AccessToken)) = "s1"

\* --- consistency of what is stored

\* C25: with the calls on the client made one after the other, whenever no
\* call is in flight a stored refresh token comes from the token response
\* that the stored access token comes from.
C25_TokensOfOneResponse ==
  (Quiescent /\ StoredValue(Media, RefreshToken) # NULL) =>
    \E data \in TokenResponses :
      /\ data.access_token = StoredValue(Media, AccessToken)
      /\ data.refresh_token = StoredValue(Media, RefreshToken)

\* C26: on the SecureStorage, in every state, a key that has both an
\* encryption key and a ciphertext stored has the encryption key the
\* ciphertext was made with; and a getItem never fails on decryption nor
\* returns anything but null or a value that was passed to setItem.
C26_KeyMatchesCiphertext ==
  /\ \A k \in PersistKeys :
       (/\ getStorageKey(k) \in DOMAIN asyncStorage
        /\ getStorageKey(k) \in DOMAIN secureStore) =>
         asyncStorage[getStorageKey(k)].under = secureStore[getStorageKey(k)]
  /\ \A p \in Calls :
       /\ outcome[p] # DecryptError
       /\ (platform = "native" /\ sop[p].fn = "getItem" /\ Returned(p)) =>
            sop[p].ret \in {NULL} \cup TokenStrings

\* --- the hook and the provider

\* C23: with the hook callbacks called one at a time: while the client call
\* of signIn / signOut of the hook has not completed, the flag is as it was
\* when the callback was called; once it has completed without error the
\* flag is true after signIn and false after signOut, and the callback
\* returns; once it has failed the callback rejects with the error of the
\* client call and the flag is as it was when the callback was called.
C23_FlagFollowsClientCall ==
  \A p \in Calls :
    local[p].caller \in {"hook.signIn", "hook.signOut"} =>
      IF ~local[p].resumed
        THEN provider.isAuthenticated = local[p].flag
      ELSE IF outcome[p].status = "returned"
        THEN /\ provider.isAuthenticated = (local[p].caller = "hook.signIn")
             /\ local[p].settled = ReturnedWith(NULL)
      ELSE /\ outcome[p].status = "threw"
           /\ local[p].settled = outcome[p]
           /\ provider.isAuthenticated = local[p].flag

\* C23 witness: signOut of the hook was called while the flag was true, and
\* client.signOut() failed.
C23_Witness ==
  \E p \in Calls :
    /\ local[p].caller = "hook.signOut"
    /\ local[p].resumed
    /\ local[p].flag
    /\ outcome[p].status = "threw"

\* C24: whenever isInitialized is true, the flag has been set from the
\* isAuthenticated() result of the client instance the context exposes.
C24_InitializedMeansFetched ==
  provider.isInitialized => provider.fetched = provider.client

\* What client.isAuthenticated() can return over the media as they are.
IsAuthenticatedReturns ==
  IF platform = "web"
  THEN {Boolean(MapGet(localStorage, getKey(AccessToken)))}
  ELSE LET storageKey == getStorageKey(AccessToken) IN
       IF storageKey \notin DOMAIN asyncStorage THEN {FALSE}
       ELSE IF NoEncryptionKey(MapGet(secureStore, storageKey)) THEN {FALSE}
       ELSE { Boolean(plain) :
                plain \in AESDecrypt(asyncStorage[storageKey],
                                     secureStore[storageKey])
                          \ {MalformedUtf8} }

\* C27: with the hook callbacks and the effect overlapping in any way,
\* whenever nothing is in flight the flag is what client.isAuthenticated()
\* would return.
C27_FlagMirrorsClient ==
  (Mounted /\ Idle) => provider.isAuthenticated \in IsAuthenticatedReturns

\* C29: once the provider is mounted, isInitialized eventually becomes
\* true, whatever the media hold.
C29_EventuallyInitialized == <>(provider.isInitialized)

\* --- the browser result of overlapping sign-ins

\* C28: with signIn() calls overlapping, each call checked the type, the
\* code and the state of the result its own browser step resolved with,
\* against its own state: it failed with auth_session_failed exactly when
\* its own result is not a success, with invalid_state exactly when its own
\* redirect has no code or not its own state, and otherwise exchanges the
\* code of its own redirect.
C28_ChecksOwnResult ==
  \A p \in Calls :
    PastBrowser(p) =>
      LET own == local[p].browserResult
          code == SearchParamsGet(own.url, "code")
          returnedState == SearchParamsGet(own.url, "state")
      IN /\ (outcome[p] = SalesforceAuthError("auth_session_failed"))
              <=> (own.type # "success")
         /\ (outcome[p] = SalesforceAuthError("invalid_state"))
              <=> (own.type = "success"
                   /\ (Falsy(code) \/ returnedState # local[p].state))
         /\ (/\ own.type = "success"
             /\ ~Falsy(code)
             /\ returnedState = local[p].state) =>
              /\ local[p].code = code
              /\ local[p].returnedState = returnedState
              /\ Len(sent[p]) >= 1
              /\ sent[p][1] = TokenRequest(code, local[p].codeVerifier,
                                           local[p].redirectUri)

\* C28 witness: two sign-ins in flight together, both past their browser
\* step with different results; the instance field holds the result of one
\* of them while the other goes on with its own.
C28_Witness ==
  \E p, q \in Calls :
    /\ p # q
    /\ pc[p] = "fetch:token"
    /\ pc[q] = "fetch:token"
    /\ local[p].browserResult # local[q].browserResult
    /\ authSessionResult = local[q].browserResult
    /\ local[p].returnedState = local[p].state
    /\ local[p].state # local[q].state

====
